---- MODULE Spec2Model ----
(***************************************************************************)
(* Model of obspy.neries.client.Client.saveWaveform: the submit -> poll -> *)
(* retrieve -> download -> purge workflow against the seismolink SOAP      *)
(* service.  One action per remote interaction of the method; the remote   *)
(* service's answers and the transport's failures are inputs chosen with   *)
(* \E.  A second specification, EventsSpec, models Client.getEvents with   *)
(* its keyword mapping (_mapKwargs, MAP) and Client._json2list.            *)
(***************************************************************************)
EXTENDS Integers, Sequences, FiniteSets, TLC

VARIABLES pc, result, format, filename, plugins, request_ids, response,
          status, urls, fh, written, fetched, log

\* getEvents: where the call stands, its keyword arguments, the query
\* parameters handed to _fetch, the document fetched, and what is returned
VARIABLES epc, kwargs, params, data, events, eresult

\* the state of a saveWaveform run
wvars == <<pc, result, format, filename, plugins, request_ids, response,
           status, urls, fh, written, fetched, log>>

\* the state of a getEvents call
evars == <<epc, kwargs, params, data, events, eresult>>

vars == <<wvars, evars>>

(* ------------------------------ bounds -------------------------------- *)
\* most Routed Requests a dataRequest response carries
MaxIds == 2
\* most checkStatus calls of one run
MaxPolls == 3
\* most DataItems (download URLs) a dataRetrieve response carries
MaxUrls == 2

(* ------------------------- the remote's answers ----------------------- *)
\* the values of RoutedRequest.ReadyFlag: the two the code names and one
\* that is neither (a pending or unset flag)
ReadyFlags == {"true", "false", "pending"}
\* the values of RoutedRequest.StatusDescription
StatusDescriptions == {"Status: OK", "Status: ERROR"}
\* the values of RoutedRequest.Fulfillment (percent)
Fulfillments == {80, 100}
\* the kinds of value a caller passes as filename
FilenameKinds == {"string", "file", "other"}
Formats == {"MSEED", "FSEED"}

URLs == 1..(MaxUrls + 1)
\* the body urllib2.urlopen(url).read() returns for a download URL
Payload(u) == IF u % 2 = 1 THEN <<10 * u, 10 * u + 1>> ELSE <<10 * u>>

Range(s) == {s[i] : i \in 1..Len(s)}

RECURSIVE SelectIds(_)
\* [r._Id for r in rs if <predicate>] with the predicate already applied
\* as the field keep of each element
SelectIds(rs) ==
    IF rs = <<>> THEN <<>>
    ELSE IF Head(rs).keep THEN <<Head(rs).id>> \o SelectIds(Tail(rs))
         ELSE SelectIds(Tail(rs))

\* the list of Routed Request ids of a dataRequest response with n entries
\* (ids are opaque; they are numbered in response order)
RoutedIds(n) == [i \in 1..n |-> i]

\* what the remote reports about one Routed Request
RequestStates ==
    [ReadyFlag : ReadyFlags, StatusDescription : StatusDescriptions,
     Fulfillment : Fulfillments]

\* the checkStatus responses for the polled identifier list: one
\* RoutedRequest per polled identifier, in the order polled
StatusResponses(ids) ==
    {[i \in 1..Len(ids) |->
        [_Id |-> ids[i], ReadyFlag |-> a[i].ReadyFlag,
         StatusDescription |-> a[i].StatusDescription,
         Fulfillment |-> a[i].Fulfillment]] :
     a \in [1..Len(ids) -> RequestStates]}

\* the dataRetrieve responses: a list of distinct one-time download URLs
UrlLists ==
    UNION {{s \in [1..n -> URLs] : \A i, j \in 1..n : s[i] = s[j] => i = j}
           : n \in 0..MaxUrls}

(* ----------------------------- the method ----------------------------- *)
\* one RPC of the run: operation, identifier list, the plugin list
\* installed on the client when it was issued, and whether it returned
\* (ok) or raised
Call(op, ids, pl, ok) == [op |-> op, ids |-> ids, plugins |-> pl, ok |-> ok]

\* line 531-533: the plugin list in force for the dataRequest call
RequestPlugins(fmt) == IF fmt = "MSEED" THEN <<"_RequestMSEEDPlugin">> ELSE <<>>

\* the reset of line 536-538 left out
PluginsKept(fmt, pl) == pl

\* line 536-538: the plugin list after the dataRequest call returned
PluginsAfterRequest(fmt, pl) == IF fmt = "MSEED" THEN <<>> ELSE pl

\* line 77-80, _RequestMSEEDPlugin.marshalled: the attributes an installed
\* plugin list adds to the envelope of a call
Marshalled(op, pl) ==
    IF "_RequestMSEEDPlugin" \in Range(pl) /\ op = "dataRequest"
       THEN {<<"DataFormat", "MSEED">>}
       ELSE {}

\* the early return of line 541-542 left out
NoRoutesNever(ids) == FALSE

\* line 541: if not request_ids: return
NoRoutes(ids) == ids = <<>>

\* a loop that never reaches its break
PollForever(st) == TRUE

\* the loop of line 544-550 without its continue
PollOnce(st) == FALSE

\* line 547: if "false" in status: continue
PollAgain(st) == "false" \in Range(st)

\* the filter of line 553-554 without its test of the status description
FulfilledAnyStatus(r) == r.Fulfillment = 100

\* line 553-554: the filter of the fulfilled requests
Fulfilled(r) == r.StatusDescription = "Status: OK" /\ r.Fulfillment = 100

\* line 552-554
FulfilledIds(resp) ==
    SelectIds([i \in 1..Len(resp) |-> [id |-> resp[i]._Id, keep |-> Fulfilled(resp[i])]])

\* the early return of line 555-556 left out
NoneFulfilledNever(ids) == FALSE

\* line 555: if not request_ids: return
NoneFulfilled(ids) == ids = <<>>

\* a write that puts the new bytes in front of the earlier ones
WriteInFront(w, bytes) == bytes \o w

\* line 569: fh.write(...) appends to what the run has written so far
Write(w, bytes) == w \o bytes

\* a purge of the identifier list without its first entry
PurgeTail(ids) == Tail(ids)

\* line 573: the identifier list handed to purgeData
PurgeArgs(ids) == ids

Init ==
    /\ pc = "Built"
    /\ result = "none"
    /\ format \in Formats
    /\ filename \in FilenameKinds
    /\ plugins = <<>>
    /\ request_ids = <<>>
    /\ response = <<>>
    /\ status = <<>>
    /\ urls = <<>>
    /\ fh = "unset"
    /\ written = <<>>
    /\ fetched = <<>>
    /\ log = <<>>
    /\ epc = "idle"
    /\ kwargs = <<>>
    /\ params = <<>>
    /\ data = <<>>
    /\ events = <<>>
    /\ eresult = "none"

\* an exception that is recorded while the run goes on to its clean-up
RaiseThenCleanUp(kind) ==
    /\ pc' = "Downloading"
    /\ result' = kind

\* an exception leaves saveWaveform: nothing after the raising line runs
Raise(kind) ==
    /\ pc' = "done"
    /\ result' = kind

\* line 535 raises: the transport failed
DataRequestRaises ==
    /\ pc = "Built"
    /\ plugins' = RequestPlugins(format)
    /\ log' = Append(log, Call("dataRequest", <<>>, RequestPlugins(format), FALSE))
    /\ Raise("TransportError")
    /\ UNCHANGED <<evars, format, filename, request_ids, response, status, urls, fh,
                   written, fetched>>

\* line 531-542: dataRequest returns n Routed Requests
DataRequestReturns ==
    /\ pc = "Built"
    /\ \E n \in 0..MaxIds :
         /\ request_ids' = RoutedIds(n)
         /\ IF NoRoutes(RoutedIds(n))
               THEN pc' = "done" /\ result' = "NoRoutes"
               ELSE pc' = "Polling" /\ result' = result
    /\ plugins' = PluginsAfterRequest(format, RequestPlugins(format))
    /\ log' = Append(log, Call("dataRequest", <<>>, RequestPlugins(format), TRUE))
    /\ UNCHANGED <<evars, format, filename, response, status, urls, fh, written, fetched>>

DataRequest == DataRequestReturns \/ DataRequestRaises

Polls == Cardinality({i \in 1..Len(log) : log[i].op = "checkStatus"})

\* a poll of only the identifiers not yet reported ready
PollNotReady(ids, st) ==
    SelectIds([i \in 1..Len(ids) |->
                 [id |-> ids[i], keep |-> ~(i <= Len(st) /\ st[i] = "true")]])

\* line 545: the identifier list handed to checkStatus, whatever the
\* flags read so far
PollArgs(ids, st) == ids

\* line 545 raises
CheckStatusRaises ==
    /\ pc = "Polling"
    /\ Polls < MaxPolls
    /\ log' = Append(log, Call("checkStatus", PollArgs(request_ids, status), plugins, FALSE))
    /\ Raise("TransportError")
    /\ UNCHANGED <<evars, format, filename, plugins, request_ids, response, status,
                   urls, fh, written, fetched>>

\* line 545-556: one poll; on leaving the loop the identifier list is
\* narrowed to the fulfilled requests.  The response of a poll that is
\* repeated is replaced by the next poll's before any line reads its
\* RoutedRequest list again, so of such a response only the ReadyFlags
\* (status, line 546) are kept.
CheckStatusReturns ==
    /\ pc = "Polling"
    /\ Polls < MaxPolls
    /\ log' = Append(log, Call("checkStatus", PollArgs(request_ids, status), plugins, TRUE))
    /\ \E r \in StatusResponses(PollArgs(request_ids, status)) :
         /\ status' = [i \in 1..Len(r) |-> r[i].ReadyFlag]
         /\ IF PollAgain([i \in 1..Len(r) |-> r[i].ReadyFlag])
               THEN /\ pc' = "Polling"
                    /\ UNCHANGED <<result, request_ids, response>>
               ELSE /\ response' = r
                    /\ request_ids' = FulfilledIds(r)
                    /\ IF NoneFulfilled(FulfilledIds(r))
                          THEN pc' = "done" /\ result' = "NoneFulfilled"
                          ELSE pc' = "Ready" /\ result' = result
    /\ UNCHANGED <<evars, format, filename, plugins, urls, fh, written, fetched>>

CheckStatus == CheckStatusReturns \/ CheckStatusRaises

\* line 558 raises
DataRetrieveRaises ==
    /\ pc = "Ready"
    /\ log' = Append(log, Call("dataRetrieve", request_ids, plugins, FALSE))
    /\ Raise("TransportError")
    /\ UNCHANGED <<evars, format, filename, plugins, request_ids, response, status,
                   urls, fh, written, fetched>>

\* line 558-567: dataRetrieve returns the DataItems (response now names
\* them), their download URLs are collected, then the destination is
\* opened (a path), taken over (a handle) or rejected
DataRetrieveReturns ==
    /\ pc = "Ready"
    /\ log' = Append(log, Call("dataRetrieve", request_ids, plugins, TRUE))
    /\ \E us \in UrlLists : response' = us /\ urls' = us
    /\ CASE filename = "string" -> fh' = "open" /\ pc' = "Downloading" /\ result' = result
         [] filename = "file"   -> fh' = "open" /\ pc' = "Downloading" /\ result' = result
         [] OTHER               -> fh' = fh /\ Raise("TypeError")
    /\ UNCHANGED <<evars, format, filename, plugins, request_ids, status,
                   written, fetched>>

DataRetrieve == DataRetrieveReturns \/ DataRetrieveRaises

\* the next URL of the loop of line 568
NextUrl == urls[Len(fetched) + 1]

\* line 569 raises in urllib2.urlopen(url).read()
DownloadRaises ==
    /\ pc = "Downloading"
    /\ Len(fetched) < Len(urls)
    /\ fetched' = Append(fetched, NextUrl)
    /\ Raise("DownloadError")
    /\ UNCHANGED <<evars, format, filename, plugins, request_ids, response, status,
                   urls, fh, written, log>>

\* line 568-569: one pass of the download loop
DownloadWrites ==
    /\ pc = "Downloading"
    /\ Len(fetched) < Len(urls)
    /\ fetched' = Append(fetched, NextUrl)
    /\ written' = Write(written, Payload(NextUrl))
    /\ UNCHANGED <<evars, pc, result, format, filename, plugins, request_ids, response,
                   status, urls, fh, log>>

Download == DownloadWrites \/ DownloadRaises

\* a close of whatever handle the loop wrote to
CloseAlways(kind, h) == "closed"

\* line 570-571: a file the method opened itself is closed after the loop
CloseOwn(kind, h) == IF kind = "string" THEN "closed" ELSE h

\* line 570-573, purgeData raises: the exception reaches the caller
PurgeDataRaises ==
    /\ pc = "Downloading"
    /\ Len(fetched) = Len(urls)
    /\ fh' = CloseOwn(filename, fh)
    /\ log' = Append(log, Call("purgeData", PurgeArgs(request_ids), plugins, FALSE))
    /\ Raise("TransportError")
    /\ UNCHANGED <<evars, format, filename, plugins, request_ids, response, status,
                   urls, written, fetched>>

\* line 570-573: close, purge, return None
PurgeDataReturns ==
    /\ pc = "Downloading"
    /\ Len(fetched) = Len(urls)
    /\ fh' = CloseOwn(filename, fh)
    /\ log' = Append(log, Call("purgeData", PurgeArgs(request_ids), plugins, TRUE))
    /\ pc' = "done"
    /\ result' = "Purged"
    /\ UNCHANGED <<evars, format, filename, plugins, request_ids, response, status,
                   urls, written, fetched>>

PurgeData == PurgeDataReturns \/ PurgeDataRaises

\* line 544-550: the caller interrupts the run while it polls (a
\* KeyboardInterrupt raised inside the loop); no handler catches it
Interrupt ==
    /\ pc = "Polling"
    /\ Raise("KeyboardInterrupt")
    /\ UNCHANGED <<evars, format, filename, plugins, request_ids, response, status,
                   urls, fh, written, fetched, log>>

Next ==
    \/ DataRequest
    \/ CheckStatus
    \/ DataRetrieve
    \/ Download
    \/ PurgeData
    \/ Interrupt

Spec == Init /\ [][Next]_vars

\* line 544-550 with a remote that reports every request ready in the end:
\* the last poll the bound allows is answered with every flag "true"
CheckStatusEventuallyReady ==
    /\ CheckStatusReturns
    /\ Polls = MaxPolls - 1 => \A i \in 1..Len(status') : status'[i] = "true"

\* the runs in which no transport call fails and nobody interrupts
LiveNext ==
    \/ DataRequestReturns
    \/ CheckStatusEventuallyReady
    \/ DataRetrieveReturns
    \/ DownloadWrites
    \/ PurgeDataReturns

\* saveWaveform is one synchronous thread: it takes its next step
\* whenever it has one
LiveSpec == Init /\ [][LiveNext]_vars /\ WF_vars(LiveNext)

(* ------------------------------ getEvents ----------------------------- *)
\* largest magnitude of a depth (km)
MaxDepth == 1
\* most result records of one event-search response
MaxEvents == 1

\* line 35-45
MAP ==
    [min_datetime |-> "dateMin", max_datetime |-> "dateMax",
     min_latitude |-> "latMin", max_latitude |-> "latMax",
     min_longitude |-> "lonMin", max_longitude |-> "lonMax",
     min_depth |-> "depthMin", max_depth |-> "depthMax",
     min_magnitude |-> "magMin", max_magnitude |-> "magMax",
     magnitude_type |-> "magType", author |-> "auth",
     max_results |-> "limit", sort_by |-> "sort", sort_direction |-> "dir",
     format |-> "format", datetime |-> "datetime", depth |-> "depth",
     flynn_region |-> "flynn_region", latitude |-> "lat",
     longitude |-> "lon", magnitude |-> "mag", origin_id |-> "orid",
     event_id |-> "unid"]

\* line 47: dict([(value, key) for key, value in MAP.iteritems()])
Inverted(m) ==
    [r \in {m[k] : k \in DOMAIN m} |-> CHOOSE k \in DOMAIN m : m[k] = r]

\* line 47-49: the inverse table with the lowercase "magtype" added
MAP_INVERSE == ("magtype" :> "magnitude_type") @@ Inverted(MAP)

\* a reverse lookup that lets an unknown key through
InverseKeyOrSame(k) == IF k \in DOMAIN MAP_INVERSE THEN MAP_INVERSE[k] ELSE k

\* line 159: MAP_INVERSE[k]; a key outside the table raises KeyError
InverseKey(k) == IF k \in DOMAIN MAP_INVERSE THEN MAP_INVERSE[k] ELSE "KeyError"

\* a float, kept as sign and magnitude (0.0 and -0.0 are two values)
Floats == [neg : BOOLEAN, mag : 0..MaxDepth]
\* unary minus on a float
Neg(f) == [neg |-> ~f.neg, mag |-> f.mag]
\* the truth value of a number: zero of either sign is false
Truthy(f) == f.mag # 0
\* == on floats
NumEq(a, b) == a.mag = b.mag /\ (a.mag = 0 \/ a.neg = b.neg)

\* a number of the JSON document, given as a number or as its text
JsonNumber(f, asText) == IF asText THEN [text |-> f] ELSE f
\* float(v)
ToFloat(v) == IF "text" \in DOMAIN v THEN v.text ELSE v

\* str.lower() on the magnitude types of the model
Lower(t) == CASE t = "Mw" -> "mw" [] t = "Mb" -> "mb" [] OTHER -> t

\* UTCDateTime(text)
UTCDateTime(text) == [utc |-> text]

\* a depth bound that is sent as the caller gave it
DepthKept(x) == x

\* line 249-252: a depth bound that is truthy is negated
DepthOut(x) == IF Truthy(x) THEN Neg(x) ELSE x

\* a keyword argument that is given (<<v>>) or not (<<>>)
Opt(k, o) == IF o = <<>> THEN <<>> ELSE k :> o[1]
Given(vals) == {<<>>} \cup {<<v>> : v \in vals}

\* the keyword arguments of the calls considered
KwargSets ==
    {Opt("min_depth", a) @@ Opt("max_depth", b) @@ Opt("min_magnitude", c)
       @@ Opt("format", d) @@ Opt("max_results", e) @@ Opt("station", f) :
     a \in Given(Floats), b \in Given({[neg |-> TRUE, mag |-> 1]}),
     c \in Given({9}),
     d \in Given({"list", "xml"}), e \in Given({10}), f \in Given({"WIT"})}

\* line 63-64: the defaults of the wrapper
Defaults == [sort |-> "datetime", dir |-> "ASC", limit |-> 100, format |-> "list"]

\* line 61-67, _mapKwargs.wrapper: the defaults overridden by the keyword
\* arguments that MAP covers, under their remote names
NewKwargs(kw) ==
    LET covered == DOMAIN kw \cap DOMAIN MAP
    IN  [r \in {MAP[k] : k \in covered} |->
            kw[CHOOSE k \in covered : MAP[k] = r]] @@ Defaults

\* line 171-176: format is a named parameter of getEvents and takes the
\* entry "format"; the other entries are its **kwargs
FormatParam(nk) == nk["format"]
RestKwargs(nk) == [r \in DOMAIN nk \ {"format"} |-> nk[r]]

\* line 245-252: the query parameters handed to _fetch
QueryParams(fmt, kw) ==
    LET withFormat == IF fmt = "list" THEN ("format" :> "json") @@ kw ELSE kw
    IN  [r \in DOMAIN withFormat |->
            IF r \in {"depthMin", "depthMax"}
               THEN DepthOut(withFormat[r])
               ELSE withFormat[r]]

\* what one result record looks like apart from its depth
RawShapes ==
    {[asText |-> FALSE, magtype |-> "Mw", extra |-> FALSE],
     [asText |-> TRUE,  magtype |-> "mb", extra |-> TRUE]}

\* one record of results['unids'], its keys the remote names; a record
\* with extra carries a key that the table does not know
RawRecord(d, shape) ==
    LET known == [depth |-> JsonNumber(d, shape.asText),
                  lat |-> [neg |-> FALSE, mag |-> 1],
                  lon |-> [neg |-> TRUE, mag |-> 1],
                  mag |-> [neg |-> FALSE, mag |-> 1],
                  magtype |-> shape.magtype,
                  datetime |-> "2004-12-26T00:58:50Z"]
    IN  IF shape.extra THEN ("region_code" :> "1") @@ known ELSE known

RawRecords == {RawRecord(d, sh) : d \in Floats, sh \in RawShapes}

\* the JSON documents of the event search
JsonDocuments == UNION {[1..n -> RawRecords] : n \in 0..MaxEvents}

\* line 159-166: one result record as an event, or KeyError
Event(raw) ==
    IF \E k \in DOMAIN raw : InverseKey(k) = "KeyError"
       THEN "KeyError"
       ELSE LET renamed == [n \in {InverseKey(k) : k \in DOMAIN raw} |->
                              raw[CHOOSE k \in DOMAIN raw : InverseKey(k) = n]]
            IN  [n \in DOMAIN renamed |->
                   CASE n = "depth" -> Neg(ToFloat(renamed[n]))
                     [] n \in {"latitude", "longitude", "magnitude"} ->
                          ToFloat(renamed[n])
                     [] n = "magnitude_type" -> Lower(renamed[n])
                     [] n = "datetime" -> UTCDateTime(renamed[n])
                     [] OTHER -> renamed[n]]

\* line 158: does the conversion of some record raise
Json2ListRaises(doc) ==
    \E i \in 1..Len(doc) :
        \E k \in DOMAIN doc[i] : InverseKey(k) = "KeyError"

\* line 151-168, _json2list
Json2List(doc) == [i \in 1..Len(doc) |-> Event(doc[i])]

EventsInit ==
    /\ epc = "call"
    /\ kwargs \in KwargSets
    /\ params = <<>>
    /\ data = <<>>
    /\ events = <<>>
    /\ eresult = "none"
    /\ pc = "Built"
    /\ result = "none"
    /\ format = "MSEED"
    /\ filename = "string"
    /\ plugins = <<>>
    /\ request_ids = <<>>
    /\ response = <<>>
    /\ status = <<>>
    /\ urls = <<>>
    /\ fh = "unset"
    /\ written = <<>>
    /\ fetched = <<>>
    /\ log = <<>>

\* the format the call asks for
Requested == FormatParam(NewKwargs(kwargs))

\* line 61-68 and 245-254: the call is mapped, the query is built and
\* _fetch returns the document of the remote service (a QuakeML document
\* is not looked into and is kept as <<>>)
GetEventsFetch ==
    /\ epc = "call"
    /\ params' = QueryParams(Requested, RestKwargs(NewKwargs(kwargs)))
    /\ IF Requested = "list"
          THEN data' \in JsonDocuments
          ELSE data' = <<>>
    /\ epc' = "fetched"
    /\ UNCHANGED <<wvars, kwargs, events, eresult>>

\* line 256-259: the document is returned as it is, or as a list of events
GetEventsReturn ==
    /\ epc = "fetched"
    /\ epc' = "done"
    /\ IF Requested = "list"
          THEN IF Json2ListRaises(data)
                  THEN events' = <<>> /\ eresult' = "KeyError"
                  ELSE events' = Json2List(data) /\ eresult' = "list"
          ELSE events' = <<>> /\ eresult' = "xml"
    /\ UNCHANGED <<wvars, kwargs, params, data>>

EventsNext ==
    \/ GetEventsFetch
    \/ GetEventsReturn

EventsSpec == EventsInit /\ [][EventsNext]_vars

(* ------------------------------ the claims ---------------------------- *)
Ops == [i \in 1..Len(log) |-> log[i].op]
Issued(op) == \E i \in 1..Len(log) : log[i].op = op
Count(op) == Cardinality({i \in 1..Len(log) : log[i].op = op})

\* C1: the RPCs of a run are issued in strict order: one dataRequest
\* first, then checkStatus calls, then at most one dataRetrieve, then at
\* most one purgeData; nothing but purgeData follows dataRetrieve,
\* dataRetrieve directly follows a checkStatus whose flags the loop
\* accepted (no "false" among them), and purgeData directly follows
\* dataRetrieve.
C1_StrictOrder ==
    /\ pc # "Built" => Len(log) >= 1
    /\ \A i \in 1..Len(log) :
         /\ (log[i].op = "dataRequest") <=> (i = 1)
         /\ log[i].op = "checkStatus" =>
               i > 1 /\ log[i - 1].op \in {"dataRequest", "checkStatus"}
         /\ log[i].op = "dataRetrieve" =>
               /\ i > 1 /\ log[i - 1].op = "checkStatus"
               /\ status # <<>> /\ "false" \notin Range(status)
               /\ \A j \in (i + 1)..Len(log) : log[j].op = "purgeData"
         /\ log[i].op = "purgeData" =>
               i = Len(log) /\ i > 1 /\ log[i - 1].op = "dataRetrieve"

\* a run that issued all four operations, with a repeated poll
C1_Witness == result = "Purged" /\ Count("checkStatus") >= 2

\* C2: a dataRequest response without Routed Requests ends the run
\* normally as NoRoutes, with dataRequest the only RPC issued, no URL
\* fetched, nothing written and the destination not opened.
C2_NoRoutes ==
    /\ (Len(log) = 1 /\ request_ids = <<>> /\ result # "TransportError") =>
          (pc = "done" /\ result = "NoRoutes")
    /\ result = "NoRoutes" =>
          /\ pc = "done"
          /\ Ops = <<"dataRequest">>
          /\ fetched = <<>> /\ written = <<>> /\ fh = "unset"

C2_Witness == result = "NoRoutes" /\ filename = "string"

\* the status flags the polling loop last read were all "true"
AllReady == \A i \in 1..Len(status) : status[i] = "true"

\* the polling loop was left through its break (line 550)
LoopLeft ==
    \/ pc \in {"Ready", "Downloading"}
    \/ result \in {"NoneFulfilled", "Purged", "TypeError", "DownloadError"}
    \/ Issued("dataRetrieve")

\* C3: the polling loop ends exactly at the first status response in
\* which every tracked Routed Request reports ready == true: it is not
\* left on a response that is not all-ready (never fewer polls), and it
\* does not poll again after one that is (never more).
C3_PollCountExact ==
    /\ LoopLeft => AllReady
    /\ (pc = "Polling" /\ Count("checkStatus") > 0) => ~AllReady

\* the ids of the Routed Requests of a status response that are fulfilled
\* to 100 percent with a status description of success, in response order
EligibleIds(resp) ==
    LET sel == SelectSeq(resp, LAMBDA r : r.Fulfillment = 100 /\
                                          r.StatusDescription = "Status: OK")
    IN  [i \in 1..Len(sel) |-> sel[i]._Id]

LastCall == log[Len(log)]

\* C4: dataRetrieve is called with exactly the identifiers of the final
\* status response that are fulfilled to 100 percent with status OK,
\* purgeData with the same list, and no checkStatus is issued once the
\* loop has read a response without a "false" flag (a dropped identifier
\* is not polled again).
C4_OnlyFulfilled ==
    [][log' # log =>
         LET call == log'[Len(log')] IN
         /\ call.op = "dataRetrieve" => call.ids = EligibleIds(response)
         /\ call.op = "purgeData" =>
               LastCall.op = "dataRetrieve" /\ call.ids = LastCall.ids
         /\ call.op = "checkStatus" =>
               status = <<>> \/ "false" \in Range(status)]_vars

\* two identifiers were polled, the first was dropped by the filter and
\* the second alone was retrieved and purged
C4_Witness ==
    /\ Issued("purgeData") /\ Len(status) = 2
    /\ \A i \in 1..Len(log) :
         log[i].op \in {"dataRetrieve", "purgeData"} => log[i].ids = <<2>>

\* C5: when the loop is left and no identifier is fulfilled with status
\* OK the run ends normally as NoneFulfilled: no dataRetrieve, no
\* purgeData, no URL fetched, nothing written, destination not opened;
\* the run goes on to dataRetrieve only with a fulfilled identifier.
C5_NoneFulfilled ==
    /\ pc = "Ready" => EligibleIds(response) # <<>>
    /\ \A i \in 1..Len(log) : log[i].op = "dataRetrieve" => log[i].ids # <<>>
    /\ result = "NoneFulfilled" =>
          /\ pc = "done"
          /\ EligibleIds(response) = <<>>
          /\ ~Issued("dataRetrieve") /\ ~Issued("purgeData")
          /\ fetched = <<>> /\ written = <<>> /\ fh = "unset"

\* polling ended with a request at 80 percent and nothing fulfilled
C5_Witness ==
    /\ result = "NoneFulfilled" /\ filename = "string"
    /\ \E i \in 1..Len(response) : response[i].Fulfillment = 80

RECURSIVE Payloads(_)
\* payload(u1) ++ ... ++ payload(un)
Payloads(us) == IF us = <<>> THEN <<>> ELSE Payload(Head(us)) \o Payloads(Tail(us))

\* C6: after a successful run the bytes written are the payloads of the
\* download URLs concatenated in the order of the dataRetrieve response,
\* and every download URL was fetched exactly once.
C6_Concatenation ==
    result = "Purged" =>
        /\ written = Payloads(urls)
        /\ Len(fetched) = Len(urls)
        /\ \A u \in Range(urls) :
             Cardinality({i \in 1..Len(fetched) : fetched[i] = u}) = 1

C6_Witness == result = "Purged" /\ Len(urls) = 2 /\ urls[1] > urls[2]

\* C7: a run that completes all downloads issues purgeData exactly once,
\* after the last URL was fetched and written, with the identifier list
\* that was passed to dataRetrieve.
C7_PurgeOnceAfter ==
    /\ \A i \in 1..Len(log) : log[i].op = "purgeData" =>
          /\ fetched = urls /\ written = Payloads(urls)
          /\ Count("purgeData") = 1
          /\ \E j \in 1..(i - 1) :
                log[j].op = "dataRetrieve" /\ log[j].ids = log[i].ids
    /\ (pc = "done" /\ fh # "unset" /\ result # "DownloadError") =>
          Count("purgeData") = 1

C7_Witness ==
    /\ result = "Purged" /\ Len(urls) = 2
    /\ Len(LastCall.ids) = 2

\* C8: when fetching a download URL fails after dataRetrieve succeeded,
\* purgeData is still issued before the call ends.
C8_PurgeAfterFailedDownload ==
    (pc = "done" /\ result = "DownloadError") => Issued("purgeData")

\* C9: a failing purgeData call is not propagated: the run returns
\* normally and the destination keeps the bytes written.
C9_PurgeFailureSwallowed ==
    \A i \in 1..Len(log) : (log[i].op = "purgeData" /\ ~log[i].ok) =>
        (result = "Purged" /\ written = Payloads(urls))

\* C10: a transport failure in dataRequest, checkStatus or dataRetrieve
\* ends the run with that error at once: the failing call is the last
\* RPC issued (so no purgeData), no URL is fetched, and nothing is opened
\* or written at the destination.
C10_FailureAborts ==
    \A i \in 1..Len(log) :
        (log[i].op \in {"dataRequest", "checkStatus", "dataRetrieve"} /\ ~log[i].ok) =>
            /\ i = Len(log)
            /\ pc = "done" /\ result = "TransportError"
            /\ fetched = <<>> /\ written = <<>> /\ fh = "unset"

\* a poll failed after an earlier poll had returned
C10_Witness ==
    /\ Len(log) = 3 /\ LastCall.op = "checkStatus" /\ ~LastCall.ok
    /\ filename = "string"

\* C11: a run interrupted while it polls still issues purgeData for the
\* identifiers it obtained from the submit response.
C11_PurgeOnInterrupt ==
    (pc = "done" /\ result = "KeyboardInterrupt") => Issued("purgeData")

\* C12: a file handle supplied by the caller is never closed by the run,
\* on any exit path; only a file opened from a path string is closed.
C12_CallerHandleLeftOpen ==
    /\ filename = "file" => fh # "closed"
    /\ fh = "closed" => filename = "string"
    /\ (filename = "file" /\ Issued("purgeData")) => fh = "open"

\* a run into a caller's handle went through the close of line 570-571
C12_Witness == filename = "file" /\ result = "Purged" /\ written # <<>>

\* C13: the DataFormat=MSEED hook is installed only for the dataRequest
\* call and only for format MSEED: every other call is issued with an
\* empty plugin list, and for another format the list is always empty.
C13_HookOnlyForRequest ==
    /\ \A i \in 1..Len(log) :
         /\ log[i].op = "dataRequest" =>
               (log[i].plugins # <<>>) = (format = "MSEED")
         /\ log[i].op # "dataRequest" => log[i].plugins = <<>>
         /\ Marshalled(log[i].op, log[i].plugins) # {} =>
               (log[i].op = "dataRequest" /\ format = "MSEED")
    /\ pc \in {"Polling", "Ready", "Downloading"} => plugins = <<>>
    /\ format # "MSEED" => plugins = <<>>

\* an MSEED run whose later calls were all issued
C13_Witness ==
    /\ format = "MSEED" /\ result = "Purged"
    /\ Marshalled(log[1].op, log[1].plugins) # {}

\* C14: a call whose destination is neither a path string nor a file
\* handle ends with the TypeError, whatever the remote answers, and
\* writes nothing.
C14_InvalidDestinationRejected ==
    (filename = "other" /\ pc = "done") =>
        (result = "TypeError" /\ written = <<>>)

\* the identifier list extracted from the submit response (line 540): the
\* list a returned poll was answered for, one flag per identifier, and
\* before any poll returned the list the run still holds
SubmittedIds ==
    IF status # <<>> THEN RoutedIds(Len(status)) ELSE request_ids

\* C21: every checkStatus call of a run is made with the full identifier
\* list of the submit response, the same in every poll: an identifier
\* reported ready by an earlier poll stays in it, and the list is
\* narrowed only by the step that leaves the polling loop.
C21_FullListPolled ==
    /\ [](\A i \in 1..Len(log) :
            log[i].op = "checkStatus" => log[i].ids = SubmittedIds)
    /\ [](pc = "Polling" => request_ids = SubmittedIds)
    /\ [][(log' # log /\ log'[Len(log')].op = "checkStatus")
            => log'[Len(log')].ids = request_ids]_vars
    /\ [][request_ids' # request_ids =>
            (pc = "Built" \/ (pc = "Polling" /\ pc' # "Polling"))]_vars

\* two polls were made with both identifiers, the last of them reported
\* the first identifier ready and the second not, and the run polls on
\* with both
C21_Witness ==
    /\ pc = "Polling" /\ Count("checkStatus") = 2
    /\ status = <<"true", "false">>
    /\ request_ids = <<1, 2>>
    /\ \A i \in 1..Len(log) : log[i].op = "checkStatus" => log[i].ids = <<1, 2>>

\* C22: a file the run opened itself from a path string is closed when
\* the run ends, however it ends.
C22_OwnFileClosed ==
    (pc = "done" /\ filename = "string" /\ fh # "unset") => fh = "closed"

\* C23: a run that ends with the TypeError of the destination check has
\* issued no RPC.
C23_RejectedBeforeAnyCall ==
    (pc = "done" /\ result = "TypeError") => log = <<>>

\* C20: the polling loop is left only on a response in which every
\* readiness flag is "true"; a flag that is "false", pending or unset
\* makes the run poll again.
C20_LeftOnlyOnTrue ==
    LoopLeft => \A i \in 1..Len(status) : status[i] \notin {"false", "pending"}

\* C15 as stated: with no failing transport call and a remote that in
\* the end reports every request ready, every run reaches Purged,
\* NoRoutes or NoneFulfilled.
C15_Original ==
    <>(pc = "done" /\ result \in {"Purged", "NoRoutes", "NoneFulfilled"})

\* the steps a run of LiveSpec has left at most: the polls and downloads
\* of its phase, ranked by phase
StepsLeft ==
    LET width == MaxPolls + MaxUrls + 1
        rank  == CASE pc = "Built"       -> 4
                   [] pc = "Polling"     -> 3
                   [] pc = "Ready"       -> 2
                   [] pc = "Downloading" -> 1
                   [] OTHER              -> 0
        inner == CASE pc = "Polling"     -> MaxPolls - Count("checkStatus")
                   [] pc = "Downloading" -> Len(urls) - Len(fetched)
                   [] OTHER              -> 0
    IN  rank * width + inner

\* C15, amended: under the same assumptions every run ends, in Purged,
\* NoRoutes or NoneFulfilled or with the TypeError of the destination
\* check: a run that has not ended has a next step, every step lowers
\* the number of steps left, and a run ends in one of these four ways.
\* The loop itself has no bound: a response with a "false" flag always
\* leaves the run polling, however often it has polled.
C15_Terminates ==
    /\ [](pc = "done" \/ ENABLED LiveNext)
    /\ [](StepsLeft >= 0)
    /\ [][StepsLeft' < StepsLeft]_vars
    /\ [](pc = "done" =>
            result \in {"Purged", "NoRoutes", "NoneFulfilled", "TypeError"})
    /\ [][(pc = "Polling" /\ log' # log /\ "false" \in Range(status'))
            => pc' = "Polling"]_vars

\* a run that polled more than once and went on to its end
C15_Witness == result = "Purged" /\ Count("checkStatus") >= 2

\* the local names the call supplies and the table covers
Supplied == DOMAIN kwargs \cap DOMAIN MAP

\* C16: the normalizer turns a remote depth d into -d, getEvents sends a
\* local depth bound x as -x, and sending a normalized depth back out
\* gives the remote value again, zero included.
C16_DepthRoundTrip ==
    /\ eresult = "list" =>
         \A i \in 1..Len(events) :
            /\ NumEq(events[i]["depth"], Neg(ToFloat(data[i]["depth"])))
            /\ NumEq(DepthOut(events[i]["depth"]), ToFloat(data[i]["depth"]))
    /\ epc # "call" =>
         \A k \in {"min_depth", "max_depth"} \cap DOMAIN kwargs :
            /\ MAP[k] \in DOMAIN params
            /\ NumEq(params[MAP[k]], Neg(kwargs[k]))

\* a remote depth of zero was normalized and a non-zero bound was sent
C16_Witness ==
    /\ eresult = "list" /\ Len(events) = 1 /\ ToFloat(data[1]["depth"]).mag = 0
    /\ "min_depth" \in DOMAIN kwargs /\ kwargs["min_depth"].mag = 1

\* C17: every event-search query carries format=json (the caller asks for
\* 'list', the default) or format=xml (the caller asks for 'xml'); 'list'
\* is never sent and the parameter is never left out.
C17_FormatAlwaysSent ==
    epc # "call" =>
        /\ "format" \in DOMAIN params
        /\ params["format"] = (IF Requested = "xml" THEN "xml" ELSE "json")

\* the value a supplied argument is sent with
SentAs(k, v, sent) ==
    CASE k \in {"min_depth", "max_depth"} -> NumEq(sent, Neg(v))
      [] k = "format" -> sent = (IF v = "list" THEN "json" ELSE v)
      [] OTHER -> sent = v

\* C18: each supplied argument that the table covers is in the query
\* under its remote name with the supplied value (depth bounds negated,
\* the format translated), none is dropped, and sort=datetime, dir=ASC,
\* limit=100 are sent where the caller supplied nothing.
C18_CoveredKeysSent ==
    epc # "call" =>
        /\ \A k \in Supplied :
              /\ MAP[k] \in DOMAIN params
              /\ SentAs(k, kwargs[k], params[MAP[k]])
        /\ \A r \in {"sort", "dir", "limit"} :
              (\A k \in Supplied : MAP[k] # r) =>
                  (r \in DOMAIN params /\ params[r] = Defaults[r])

\* C19: MAP is one-to-one and MAP_INVERSE inverts it; the one further
\* reverse entry is "magtype", for magnitude_type like "magType"; and a
\* result record with a key outside the table makes the conversion raise
\* KeyError, while a record with known keys is renamed to local names.
C19_MapBijection ==
    /\ \A n \in DOMAIN MAP : MAP_INVERSE[MAP[n]] = n
    /\ \A a, b \in DOMAIN MAP : MAP[a] = MAP[b] => a = b
    /\ DOMAIN MAP_INVERSE \ {MAP[n] : n \in DOMAIN MAP} = {"magtype"}
    /\ MAP_INVERSE["magtype"] = "magnitude_type"
    /\ MAP_INVERSE["magType"] = "magnitude_type"
    /\ (epc = "done" /\ Requested = "list") =>
         /\ (eresult = "KeyError") =
               (\E i \in 1..Len(data) : DOMAIN data[i] \notin SUBSET DOMAIN MAP_INVERSE)
         /\ eresult = "list" =>
               \A i \in 1..Len(events) :
                  DOMAIN events[i] = {MAP_INVERSE[k] : k \in DOMAIN data[i]}

\* a record with a key outside the table was converted
C19_Witness ==
    /\ eresult = "KeyError"
    /\ \E i \in 1..Len(data) : "region_code" \in DOMAIN data[i]

====
